---- MODULE Spec2Model ----
(***************************************************************************)
(* Portfolio valuation / recalculation engine.                             *)
(*                                                                         *)
(* The model follows services/transaction.ts (the type-aware version with  *)
(* mutual-fund and stock branches), services/portfolio.ts and the quote    *)
(* handlers of pages/Dashboard.tsx.  The Firestore collections are the     *)
(* state; every awaited store call of an operation is one step, so that    *)
(* operations issued by different callers interleave at their awaits.      *)
(*                                                                         *)
(* Numbers: amounts, units and quotes are exact integers (minor units);    *)
(* returnPercentage, the only quotient, is an exact reduced fraction.      *)
(* IEEE-754 rounding is not modelled.                                      *)
(***************************************************************************)
EXTENDS Integers, Sequences, FiniteSets, TLC

VARIABLES
  portfolios,     \* collection 'portfolios'  : id -> document (a record of its fields)
  transactions,   \* collection 'transactions': id -> document
  ops,            \* per caller: the operation it has in flight, with its locals
  nextTxId,       \* ids handed out by doc(collection(db,'transactions'))
  opsLeft,        \* operations the callers will still issue
  known,          \* portfolio ids the callers hold and may pass
  counts          \* history: operations succeeded, store writes issued

vars == <<portfolios, transactions, ops, nextTxId, opsLeft, known, counts>>

----------------------------------------------------------------------------
(* Bounds and input alphabets *)

MaxOps == 3             \* operations issued by the single writer
MaxConcurrentOps == 2   \* operations issued by the concurrent callers
MaxStoreOps == 2        \* operations issued against the unreliable store

Callers == {"c1", "c2"}

PortfolioIds == {"p1"}

\* Two portfolios, for the operations that name a transaction and a portfolio.
StoreIds == {"p1", "p2"}

InvestmentTypes == {"cooperative", "pvd", "mutual_fund", "stock", "savings"}

\* CreateTransactionInput samples (portfolioId is added by the caller).
\* Details are optional properties: present or not in the record's domain.
CreateInputs ==
  { [type |-> "deposit",    amount |-> 5000, date |-> 1],
    [type |-> "withdrawal", amount |-> 2000, date |-> 2],
    [type |-> "deposit",    amount |-> 1000, date |-> 1,
       mutualFundDetails |-> [unitsPurchased |-> 100, pricePerUnit |-> 10]],
    [type |-> "withdrawal", amount |-> 1500, date |-> 3,
       mutualFundDetails |-> [unitsPurchased |-> 150, pricePerUnit |-> 10]],
    [type |-> "deposit",    amount |-> 2000, date |-> 2,
       stockDetails |-> [unitsPurchased |-> 10, pricePerUnitUSD |-> 50, exchangeRate |-> 4]],
    [type |-> "withdrawal", amount |-> 3000, date |-> 1,
       stockDetails |-> [unitsPurchased |-> 15, pricePerUnitUSD |-> 50, exchangeRate |-> 4]] }

\* UpdateTransactionInput samples: partial records.
UpdateInputs ==
  { [type |-> "withdrawal"],
    [amount |-> 2000] }

\* UpdatePortfolioInput samples: name, targetAmount, description, color.
UpdatePortfolioInputs ==
  { [name |-> "renamed"],
    [targetAmount |-> 100000] }

NavValues == {0, 12}

StockQuotes ==
  { [pricePerUnitUSD |-> 55, exchangeRate |-> 4],
    [pricePerUnitUSD |-> 55, exchangeRate |-> 0],
    [pricePerUnitUSD |-> 0,  exchangeRate |-> 4] }

----------------------------------------------------------------------------
(* Numbers *)

Abs(n) == IF n < 0 THEN -n ELSE n

RECURSIVE Gcd(_, _)
Gcd(a, b) == IF b = 0 THEN a ELSE Gcd(b, a % b)

Sign(n) == IF n > 0 THEN 1 ELSE IF n < 0 THEN -1 ELSE 0

\* The quotient n / d as JavaScript's number division gives it, rounding
\* apart: a reduced fraction with a positive denominator, and for d = 0
\* Infinity (1/0), -Infinity (-1/0) or NaN (0/0).
Ratio(n, d) ==
  IF d = 0 THEN [num |-> Sign(n), den |-> 0]
  ELSE LET g == Gcd(Abs(n), Abs(d))
       IN  [num |-> Sign(d) * (n \div g), den |-> Abs(d) \div g]

Finite(q) == q.den > 0

Zero == [num |-> 0, den |-> 1]

Whole(n) == [num |-> n, den |-> 1]

----------------------------------------------------------------------------
(* Documents *)

Has(doc, f) == f \in DOMAIN doc

\* updateDoc(ref, data): the fields of data replace or extend those stored.
Merge(doc, data) ==
  [f \in DOMAIN doc \cup DOMAIN data |-> IF f \in DOMAIN data THEN data[f] ELSE doc[f]]

\* data.field || 0
OrZero(doc, f) == IF Has(doc, f) THEN doc[f] ELSE 0

SnapshotFields ==
  {"currentValue", "totalInvested", "totalReturn", "returnPercentage",
   "transactionCount", "totalUnits"}

----------------------------------------------------------------------------
(* services/portfolio.ts *)

\* createPortfolio: the document written by setDoc.  The stock quote fields
\* are not written; readers default them to 0.
createPortfolio(investmentType) ==
  [ investmentType    |-> investmentType,
    currentValue      |-> 0,
    totalInvested     |-> 0,
    totalReturn       |-> 0,
    returnPercentage  |-> Zero,
    transactionCount  |-> 0,
    currentNavPerUnit |-> 0,
    totalUnits        |-> 0 ]

\* getPortfolio: the Portfolio object built from the stored document.
getPortfolio(doc) ==
  [ investmentType       |-> doc.investmentType,
    currentNavPerUnit    |-> OrZero(doc, "currentNavPerUnit"),
    currentStockPriceUSD |-> OrZero(doc, "currentStockPriceUSD"),
    currentExchangeRate  |-> OrZero(doc, "currentExchangeRate") ]

\* Mutant: the write carries only part of the recomputed fields.
writeSnapshotPartial(doc, stats) ==
  Merge(doc, [currentValue |-> stats.currentValue, totalInvested |-> stats.totalInvested])

\* Mutant: the transaction count is added to the stored one.
writeSnapshotAccumulating(doc, stats) ==
  Merge(doc, [stats EXCEPT !.transactionCount = doc.transactionCount + @])

\* portfolioService.updatePortfolioStats: updateDoc(docRef, {...stats}).
\* Mutant: the snapshot write also resets the stored NAV.
writeSnapshotClearingQuote(doc, stats) ==
  Merge(doc, Merge(stats, [currentNavPerUnit |-> 0]))

writeSnapshot(doc, stats) == Merge(doc, stats)

\* updateNav: updateDoc(docRef, {currentNavPerUnit}).
updateNav(doc, navPerUnit) == Merge(doc, [currentNavPerUnit |-> navPerUnit])

\* updateStockPrice: updateDoc(docRef, {currentStockPriceUSD, currentExchangeRate}).
updateStockPrice(doc, pricePerUnitUSD, exchangeRate) ==
  Merge(doc, [currentStockPriceUSD |-> pricePerUnitUSD,
              currentExchangeRate  |-> exchangeRate])

----------------------------------------------------------------------------
(* services/transaction.ts: reading the ledger *)

\* The ids of the stored transactions of a portfolio, ascending.  Ids follow
\* creation here, while Firestore's auto ids are random: the claims about scan
\* order quantify over every order of the fetched list.
RECURSIVE IdsAscending(_, _, _)
IdsAscending(store, portfolioId, from) ==
  IF from >= nextTxId THEN <<>>
  ELSE IF from \in DOMAIN store /\ store[from].portfolioId = portfolioId
       THEN <<from>> \o IdsAscending(store, portfolioId, from + 1)
       ELSE IdsAscending(store, portfolioId, from + 1)

\* Insert t into a list already sorted by date descending, behind its equals.
RECURSIVE InsertByDateDesc(_, _)
InsertByDateDesc(sorted, t) ==
  IF sorted = <<>> THEN <<t>>
  ELSE IF Head(sorted).date >= t.date
       THEN <<Head(sorted)>> \o InsertByDateDesc(Tail(sorted), t)
       ELSE <<t>> \o sorted

\* transactions.sort((a, b) => b.date - a.date): stable, most recent first.
RECURSIVE SortByDateDesc(_)
SortByDateDesc(txs) ==
  IF txs = <<>> THEN <<>>
  ELSE InsertByDateDesc(SortByDateDesc(SubSeq(txs, 1, Len(txs) - 1)), txs[Len(txs)])

\* getPortfolioTransactions: query by portfolioId, then sort.
getPortfolioTransactions(store, portfolioId) ==
  LET ids == IdsAscending(store, portfolioId, 1)
  IN  SortByDateDesc([i \in 1..Len(ids) |-> Merge(store[ids[i]], [id |-> ids[i]])])

----------------------------------------------------------------------------
(* services/transaction.ts: the scans *)

\* Mutant: a withdrawal larger than the balance scanned so far is skipped.
RECURSIVE statsScanRunning(_, _, _)
statsScanRunning(txs, totalDeposits, totalWithdrawals) ==
  IF txs = <<>>
  THEN [totalDeposits |-> totalDeposits, totalWithdrawals |-> totalWithdrawals]
  ELSE LET t == Head(txs)
       IN  IF t.type = "deposit"
           THEN statsScanRunning(Tail(txs), totalDeposits + t.amount, totalWithdrawals)
           ELSE IF t.amount > totalDeposits - totalWithdrawals
           THEN statsScanRunning(Tail(txs), totalDeposits, totalWithdrawals)
           ELSE statsScanRunning(Tail(txs), totalDeposits, totalWithdrawals + t.amount)

\* The forEach of getPortfolioStats with its two accumulators.
RECURSIVE statsScan(_, _, _)
statsScan(txs, totalDeposits, totalWithdrawals) ==
  IF txs = <<>>
  THEN [totalDeposits |-> totalDeposits, totalWithdrawals |-> totalWithdrawals]
  ELSE LET t == Head(txs)
       IN  IF t.type = "deposit"
           THEN statsScan(Tail(txs), totalDeposits + t.amount, totalWithdrawals)
           ELSE statsScan(Tail(txs), totalDeposits, totalWithdrawals + t.amount)

getPortfolioStats(txs) ==
  LET s == statsScan(txs, 0, 0)
  IN  [ totalDeposits    |-> s.totalDeposits,
        totalWithdrawals |-> s.totalWithdrawals,
        netInvested      |-> s.totalDeposits - s.totalWithdrawals,
        transactionCount |-> Len(txs) ]

\* Mutant: withdrawals add their units instead of subtracting them.
RECURSIVE unitsScanUnsigned(_, _, _)
unitsScanUnsigned(txs, details, totalUnits) ==
  IF txs = <<>> THEN totalUnits
  ELSE LET t == Head(txs)
       IN  IF Has(t, details)
           THEN unitsScanUnsigned(Tail(txs), details, totalUnits + t[details].unitsPurchased)
           ELSE unitsScanUnsigned(Tail(txs), details, totalUnits)

\* The forEach of getMutualFundUnits / getStockUnits over the detail payload
\* named by details.
RECURSIVE unitsScan(_, _, _)
unitsScan(txs, details, totalUnits) ==
  IF txs = <<>> THEN totalUnits
  ELSE LET t == Head(txs)
       IN  IF Has(t, details)
           THEN IF t.type = "deposit"
                THEN unitsScan(Tail(txs), details, totalUnits + t[details].unitsPurchased)
                ELSE unitsScan(Tail(txs), details, totalUnits - t[details].unitsPurchased)
           ELSE unitsScan(Tail(txs), details, totalUnits)

getMutualFundUnits(txs) == unitsScan(txs, "mutualFundDetails", 0)

\* Mutant: the stock scan reads the mutual-fund payload.
getStockUnitsOfFunds(txs) == unitsScan(txs, "mutualFundDetails", 0)

getStockUnits(txs) == unitsScan(txs, "stockDetails", 0)

----------------------------------------------------------------------------
(* services/transaction.ts: updatePortfolioStats, the computation between   *)
(* its reads and its write                                                 *)

\* x && x > 0
Positive(x) == x # 0 /\ x > 0

\* Mutant: every type is valued at cost (the updatePortfolioStats of the
\* earlier services/transaction.ts).
currentValueAtCost(stats, portfolio, totalUnits) == stats.netInvested

\* Mutant: one positive stock quote field is enough.
currentValueEitherQuote(stats, portfolio, totalUnits) ==
  IF portfolio.investmentType = "mutual_fund"
  THEN IF Positive(portfolio.currentNavPerUnit)
       THEN totalUnits * portfolio.currentNavPerUnit
       ELSE stats.netInvested
  ELSE IF portfolio.investmentType = "stock"
  THEN IF Positive(portfolio.currentStockPriceUSD) \/ Positive(portfolio.currentExchangeRate)
       THEN totalUnits * portfolio.currentStockPriceUSD * portfolio.currentExchangeRate
       ELSE stats.netInvested
  ELSE stats.netInvested

\* Mutant: the branch is chosen by the quote present, not by the type.
currentValueQuoteFirst(stats, portfolio, totalUnits) ==
  IF Positive(portfolio.currentNavPerUnit)
  THEN totalUnits * portfolio.currentNavPerUnit
  ELSE IF Positive(portfolio.currentStockPriceUSD) /\ Positive(portfolio.currentExchangeRate)
  THEN totalUnits * portfolio.currentStockPriceUSD * portfolio.currentExchangeRate
  ELSE stats.netInvested

\* Mutant: the quote is used only for a positive unit balance.
currentValueClamped(stats, portfolio, totalUnits) ==
  IF portfolio.investmentType = "mutual_fund"
  THEN IF Positive(portfolio.currentNavPerUnit) /\ totalUnits > 0
       THEN totalUnits * portfolio.currentNavPerUnit
       ELSE stats.netInvested
  ELSE IF portfolio.investmentType = "stock"
  THEN IF /\ Positive(portfolio.currentStockPriceUSD)
          /\ Positive(portfolio.currentExchangeRate)
          /\ totalUnits > 0
       THEN totalUnits * portfolio.currentStockPriceUSD * portfolio.currentExchangeRate
       ELSE stats.netInvested
  ELSE stats.netInvested

currentValueOf(stats, portfolio, totalUnits) ==
  IF portfolio.investmentType = "mutual_fund"
  THEN IF Positive(portfolio.currentNavPerUnit)
       THEN totalUnits * portfolio.currentNavPerUnit
       ELSE stats.netInvested
  ELSE IF portfolio.investmentType = "stock"
  THEN IF Positive(portfolio.currentStockPriceUSD) /\ Positive(portfolio.currentExchangeRate)
       THEN totalUnits * portfolio.currentStockPriceUSD * portfolio.currentExchangeRate
       ELSE stats.netInvested
  ELSE stats.netInvested

\* Mutant: the division is made whatever the net invested amount.
returnPercentageUnguarded(totalReturn, netInvested) ==
  Ratio(totalReturn * 100, netInvested)

returnPercentageOf(totalReturn, netInvested) ==
  IF netInvested > 0 THEN Ratio(totalReturn * 100, netInvested) ELSE Zero

\* The object handed to portfolioService.updatePortfolioStats.
snapshotOf(stats, portfolio, totalUnits) ==
  LET currentValue == currentValueOf(stats, portfolio, totalUnits)
      totalReturn  == currentValue - stats.netInvested
  IN  [ currentValue     |-> currentValue,
        totalInvested    |-> stats.netInvested,
        totalReturn      |-> totalReturn,
        returnPercentage |-> returnPercentageOf(totalReturn, stats.netInvested),
        transactionCount |-> stats.transactionCount,
        totalUnits       |-> totalUnits ]

----------------------------------------------------------------------------
(* Operations in flight *)

NoStats == [totalDeposits |-> 0, totalWithdrawals |-> 0, netInvested |-> 0,
            transactionCount |-> 0]

NoPortfolio == [investmentType |-> "none", currentNavPerUnit |-> 0,
                currentStockPriceUSD |-> 0, currentExchangeRate |-> 0]

IdleOp == [kind |-> "none", pc |-> "idle", portfolioId |-> "none",
           stats |-> NoStats, portfolio |-> NoPortfolio, totalUnits |-> 0,
           trace |-> <<>>]

\* A caller issues its next operation once the previous one has settled.
Settled(c) == ops[c].pc \in {"idle", "done", "failed"}

CanStart(c) == Settled(c) /\ opsLeft > 0

\* Mutant: the operation returns after its first store write.
ReturnsWithoutRecompute(kind, portfolioId, write) ==
  [kind |-> kind, pc |-> "done", portfolioId |-> portfolioId,
   stats |-> [totalDeposits |-> 0, totalWithdrawals |-> 0, netInvested |-> 0,
              transactionCount |-> 0],
   portfolio |-> [investmentType |-> "none", currentNavPerUnit |-> 0,
                  currentStockPriceUSD |-> 0, currentExchangeRate |-> 0],
   totalUnits |-> 0, trace |-> <<write>>]

\* The operation has made its first store write and awaits updatePortfolioStats.
Recomputing(kind, portfolioId, write) ==
  [IdleOp EXCEPT !.kind = kind, !.pc = "stats", !.portfolioId = portfolioId,
                 !.trace = <<write>>]

\* Mutant: the error is logged and swallowed; the operation resolves.
Swallowed(op, call) ==
  [kind |-> op.kind, pc |-> "done", portfolioId |-> op.portfolioId,
   stats |-> [totalDeposits |-> 0, totalWithdrawals |-> 0, netInvested |-> 0,
              transactionCount |-> 0],
   portfolio |-> [investmentType |-> "none", currentNavPerUnit |-> 0,
                  currentStockPriceUSD |-> 0, currentExchangeRate |-> 0],
   totalUnits |-> 0, trace |-> Append(op.trace, call)]

\* The operation's promise is rejected.
Rejected(op, call) ==
  [IdleOp EXCEPT !.kind = op.kind, !.pc = "failed", !.portfolioId = op.portfolioId,
                 !.trace = Append(op.trace, call)]

Bump(f) == [counts EXCEPT ![f] = @ + 1]

----------------------------------------------------------------------------
(* services/transaction.ts: the ledger operations up to their first await *)

\* The document createTransaction hands to setDoc.  userId, notes, the
\* timestamps and the pvd / cooperative payloads are stored too; no scan
\* reads them.
transactionData(input, portfolioId) ==
  LET base == [portfolioId |-> portfolioId, type |-> input.type,
               amount |-> input.amount, date |-> input.date]
      mf   == IF Has(input, "mutualFundDetails")
              THEN Merge(base, [mutualFundDetails |-> input.mutualFundDetails])
              ELSE base
  IN  IF Has(input, "stockDetails")
      THEN Merge(mf, [stockDetails |-> input.stockDetails])
      ELSE mf

createTransaction(c) ==
  /\ CanStart(c)
  /\ \E portfolioId \in known, input \in CreateInputs :
       /\ transactions' = [id \in DOMAIN transactions \cup {nextTxId} |->
                             IF id = nextTxId THEN transactionData(input, portfolioId)
                             ELSE transactions[id]]
       /\ ops' = [ops EXCEPT ![c] = Recomputing("createTransaction", portfolioId, "setDoc")]
  /\ nextTxId' = nextTxId + 1
  /\ opsLeft' = opsLeft - 1
  /\ counts' = Bump("ledgerWrites")
  /\ UNCHANGED <<portfolios, known>>

\* Mutant: the stored record is replaced by the input (setDoc without merge).
updateTransactionReplacing(c) ==
  /\ CanStart(c)
  /\ \E transactionId \in 1..nextTxId, portfolioId \in known,
        input \in UpdateInputs :
       IF transactionId \in DOMAIN transactions
       THEN /\ transactions' = [transactions EXCEPT ![transactionId] =
                                  Merge([portfolioId |-> portfolioId, type |-> "deposit",
                                         amount |-> 0, date |-> 0], input)]
            /\ ops' = [ops EXCEPT ![c] =
                         Recomputing("updateTransaction", portfolioId, "updateDoc")]
            /\ counts' = Bump("ledgerWrites")
       ELSE /\ ops' = [ops EXCEPT ![c] =
                         Rejected(Recomputing("updateTransaction", portfolioId, "rejected"),
                                  "throw")]
            /\ UNCHANGED <<transactions, counts>>
  /\ opsLeft' = opsLeft - 1
  /\ UNCHANGED <<portfolios, nextTxId, known>>

\* The caller passes any id: one handed out so far (stored or deleted since)
\* or one never handed out (nextTxId).  updateDoc rejects when the document
\* does not exist.
updateTransaction(c) ==
  /\ CanStart(c)
  /\ \E transactionId \in 1..nextTxId, portfolioId \in known,
        input \in UpdateInputs :
       IF transactionId \in DOMAIN transactions
       THEN /\ transactions' = [transactions EXCEPT ![transactionId] = Merge(@, input)]
            /\ ops' = [ops EXCEPT ![c] =
                         Recomputing("updateTransaction", portfolioId, "updateDoc")]
            /\ counts' = Bump("ledgerWrites")
       ELSE /\ ops' = [ops EXCEPT ![c] =
                         Rejected(Recomputing("updateTransaction", portfolioId, "rejected"),
                                  "throw")]
            /\ UNCHANGED <<transactions, counts>>
  /\ opsLeft' = opsLeft - 1
  /\ UNCHANGED <<portfolios, nextTxId, known>>

\* deleteDoc succeeds whether or not the document exists.
deleteTransaction(c) ==
  /\ CanStart(c)
  /\ \E transactionId \in 1..nextTxId, portfolioId \in known :
       /\ transactions' = [id \in DOMAIN transactions \ {transactionId} |-> transactions[id]]
       /\ ops' = [ops EXCEPT ![c] =
                    Recomputing("deleteTransaction", portfolioId, "deleteDoc")]
  /\ counts' = Bump("ledgerWrites")
  /\ opsLeft' = opsLeft - 1
  /\ UNCHANGED <<portfolios, nextTxId, known>>

----------------------------------------------------------------------------
(* pages/Dashboard.tsx: the quote handlers up to their first await *)

handleNavUpdate(c) ==
  /\ CanStart(c)
  /\ \E selectedPortfolio \in known, navPerUnit \in NavValues :
       IF selectedPortfolio \in DOMAIN portfolios
       THEN /\ portfolios' = [portfolios EXCEPT ![selectedPortfolio] = updateNav(@, navPerUnit)]
            /\ ops' = [ops EXCEPT ![c] =
                         Recomputing("handleNavUpdate", selectedPortfolio, "updateNav")]
            /\ counts' = Bump("quoteWrites")
       ELSE /\ ops' = [ops EXCEPT ![c] =
                         Rejected(Recomputing("handleNavUpdate", selectedPortfolio, "rejected"),
                                  "throw")]
            /\ UNCHANGED <<portfolios, counts>>
  /\ opsLeft' = opsLeft - 1
  /\ UNCHANGED <<transactions, nextTxId, known>>

handleStockPriceUpdate(c) ==
  /\ CanStart(c)
  /\ \E selectedPortfolio \in known, quote \in StockQuotes :
       IF selectedPortfolio \in DOMAIN portfolios
       THEN /\ portfolios' = [portfolios EXCEPT ![selectedPortfolio] =
                                updateStockPrice(@, quote.pricePerUnitUSD, quote.exchangeRate)]
            /\ ops' = [ops EXCEPT ![c] =
                         Recomputing("handleStockPriceUpdate", selectedPortfolio,
                                     "updateStockPrice")]
            /\ counts' = Bump("quoteWrites")
       ELSE /\ ops' = [ops EXCEPT ![c] =
                         Rejected(Recomputing("handleStockPriceUpdate", selectedPortfolio,
                                              "rejected"), "throw")]
            /\ UNCHANGED <<portfolios, counts>>
  /\ opsLeft' = opsLeft - 1
  /\ UNCHANGED <<transactions, nextTxId, known>>

----------------------------------------------------------------------------
(* services/transaction.ts: updatePortfolioStats, one step per awaited call *)

\* await this.getPortfolioStats(portfolioId)
readStats(c) ==
  /\ ops[c].pc = "stats"
  /\ LET op == ops[c]
     IN  ops' = [ops EXCEPT ![c] =
           [op EXCEPT !.stats = getPortfolioStats(
                                  getPortfolioTransactions(transactions, op.portfolioId)),
                      !.pc = "portfolio",
                      !.trace = Append(@, "getPortfolioStats")]]
  /\ UNCHANGED <<portfolios, transactions, nextTxId, opsLeft, known, counts>>

\* await portfolioService.getPortfolio(portfolioId); throws when it is null.
readPortfolio(c) ==
  /\ ops[c].pc = "portfolio"
  /\ LET op == ops[c]
     IN  IF op.portfolioId \in DOMAIN portfolios
         THEN LET portfolio == getPortfolio(portfolios[op.portfolioId])
              IN  ops' = [ops EXCEPT ![c] =
                    [op EXCEPT !.portfolio = portfolio,
                               !.pc = IF portfolio.investmentType \in {"mutual_fund", "stock"}
                                      THEN "units" ELSE "write",
                               !.trace = Append(@, "getPortfolio")]]
         ELSE ops' = [ops EXCEPT ![c] = Rejected(op, "throw")]
  /\ UNCHANGED <<portfolios, transactions, nextTxId, opsLeft, known, counts>>

\* await this.getMutualFundUnits(portfolioId) / this.getStockUnits(portfolioId):
\* a second read of the ledger.
readUnits(c) ==
  /\ ops[c].pc = "units"
  /\ LET op  == ops[c]
         txs == getPortfolioTransactions(transactions, op.portfolioId)
     IN  ops' = [ops EXCEPT ![c] =
           [op EXCEPT !.totalUnits = IF op.portfolio.investmentType = "mutual_fund"
                                     THEN getMutualFundUnits(txs)
                                     ELSE getStockUnits(txs),
                      !.pc = "write",
                      !.trace = Append(@, "getUnits")]]
  /\ UNCHANGED <<portfolios, transactions, nextTxId, opsLeft, known, counts>>

\* await portfolioService.updatePortfolioStats(portfolioId, {...}); the
\* operation then returns.
writeStats(c) ==
  /\ ops[c].pc = "write"
  /\ LET op == ops[c]
     IN  IF op.portfolioId \in DOMAIN portfolios
         THEN /\ portfolios' = [portfolios EXCEPT ![op.portfolioId] =
                    writeSnapshot(@, snapshotOf(op.stats, op.portfolio, op.totalUnits))]
              /\ ops' = [ops EXCEPT ![c] =
                    [IdleOp EXCEPT !.kind = op.kind, !.pc = "done",
                                   !.portfolioId = op.portfolioId,
                                   !.trace = Append(op.trace, "updatePortfolioStats")]]
              /\ counts' = [counts EXCEPT !.snapshotWrites = @ + 1, !.succeeded = @ + 1]
         ELSE /\ ops' = [ops EXCEPT ![c] = Rejected(op, "throw")]
              /\ UNCHANGED <<portfolios, counts>>
  /\ UNCHANGED <<transactions, nextTxId, opsLeft, known>>

----------------------------------------------------------------------------
(* Specifications *)

\* After createPortfolio of the portfolios ids, all of one investment type.
Created(ids) ==
  /\ \E investmentType \in InvestmentTypes :
       portfolios = [p \in ids |-> createPortfolio(investmentType)]
  /\ known = ids
  /\ transactions = <<>>
  /\ ops = [c \in Callers |-> IdleOp]
  /\ nextTxId = 1
  /\ counts = [succeeded |-> 0, ledgerWrites |-> 0, quoteWrites |-> 0,
               snapshotWrites |-> 0]

Init == Created(PortfolioIds) /\ opsLeft = MaxConcurrentOps

InitSeq == Created(PortfolioIds) /\ opsLeft = MaxOps

Step(c) ==
  \/ createTransaction(c)
  \/ updateTransaction(c)
  \/ deleteTransaction(c)
  \/ handleNavUpdate(c)
  \/ handleStockPriceUpdate(c)
  \/ readStats(c)
  \/ readPortfolio(c)
  \/ readUnits(c)
  \/ writeStats(c)

\* Any caller may issue an operation while another caller's is in flight.
Next == \E c \in Callers : Step(c)

Spec == Init /\ [][Next]_vars

\* Single writer: one caller, whose operations run one after the other.
NextSeq == Step("c1")

SpecSeq == InitSeq /\ [][NextSeq]_vars

----------------------------------------------------------------------------
(* The store beyond the happy path: a portfolio is deleted, the recompute   *)
(* is called on its own, an awaited call of the recompute rejects          *)

\* portfolioService.deletePortfolio: deleteDoc of the portfolio document and
\* nothing else.  usePortfolio.deletePortfolio drops the portfolio from the
\* list of the session that deleted it; other sessions keep the id.
deletePortfolio(c) ==
  /\ CanStart(c)
  /\ \E portfolioId \in known :
       /\ portfolios' = [p \in DOMAIN portfolios \ {portfolioId} |-> portfolios[p]]
       /\ ops' = [ops EXCEPT ![c] =
                    [IdleOp EXCEPT !.kind = "deletePortfolio", !.pc = "done",
                                   !.portfolioId = portfolioId,
                                   !.trace = <<"deleteDoc">>]]
  /\ opsLeft' = opsLeft - 1
  /\ counts' = Bump("succeeded")
  /\ UNCHANGED <<transactions, nextTxId, known>>

\* portfolioService.updatePortfolio: updateDoc(docRef, {...input}), which
\* rejects when the document does not exist.  No recompute follows.
updatePortfolio(c) ==
  /\ CanStart(c)
  /\ \E portfolioId \in known, input \in UpdatePortfolioInputs :
       IF portfolioId \in DOMAIN portfolios
       THEN /\ portfolios' = [portfolios EXCEPT ![portfolioId] = Merge(@, input)]
            /\ ops' = [ops EXCEPT ![c] =
                         [IdleOp EXCEPT !.kind = "updatePortfolio", !.pc = "done",
                                        !.portfolioId = portfolioId,
                                        !.trace = <<"updateDoc">>]]
            /\ counts' = Bump("succeeded")
       ELSE /\ ops' = [ops EXCEPT ![c] =
                         Rejected(Recomputing("updatePortfolio", portfolioId, "rejected"),
                                  "throw")]
            /\ UNCHANGED <<portfolios, counts>>
  /\ opsLeft' = opsLeft - 1
  /\ UNCHANGED <<transactions, nextTxId, known>>

\* transactionService.updatePortfolioStats called on its own.  The first
\* entry of the trace tells whether the call directly follows a completed
\* recompute of the same portfolio ("again") or not ("call").
updatePortfolioStats(c) ==
  /\ CanStart(c)
  /\ \E portfolioId \in known :
       ops' = [ops EXCEPT ![c] =
                 Recomputing("updatePortfolioStats", portfolioId,
                             IF /\ ops[c].pc = "done"
                                /\ ops[c].trace[Len(ops[c].trace)] = "updatePortfolioStats"
                                /\ ops[c].portfolioId = portfolioId
                             THEN "again" ELSE "call")]
  /\ opsLeft' = opsLeft - 1
  /\ UNCHANGED <<portfolios, transactions, nextTxId, known, counts>>

\* Mutant: a createTransaction whose recompute fails removes its document.
storeRejectsRollingBack(c) ==
  /\ ops[c].pc \in {"stats", "portfolio", "units", "write"}
  /\ ops' = [ops EXCEPT ![c] = Rejected(ops[c], "error")]
  /\ transactions' =
       IF ops[c].kind = "createTransaction"
       THEN [id \in DOMAIN transactions \ {nextTxId - 1} |-> transactions[id]]
       ELSE transactions
  /\ UNCHANGED <<portfolios, nextTxId, opsLeft, known, counts>>

\* Mutant: a snapshot write that rejects has stored currentValue already.
storeRejectsHalfWritten(c) ==
  /\ ops[c].pc \in {"stats", "portfolio", "units", "write"}
  /\ ops' = [ops EXCEPT ![c] = Rejected(ops[c], "error")]
  /\ portfolios' =
       IF ops[c].pc = "write" /\ ops[c].portfolioId \in DOMAIN portfolios
       THEN [portfolios EXCEPT ![ops[c].portfolioId] =
               Merge(@, [currentValue |->
                           snapshotOf(ops[c].stats, ops[c].portfolio,
                                      ops[c].totalUnits).currentValue])]
       ELSE portfolios
  /\ UNCHANGED <<transactions, nextTxId, opsLeft, known, counts>>

\* The store call the recompute is awaiting rejects (network, permission,
\* quota): nothing is read or written, and every catch block on the way up
\* logs and rethrows.
storeRejects(c) ==
  /\ ops[c].pc \in {"stats", "portfolio", "units", "write"}
  /\ ops' = [ops EXCEPT ![c] = Rejected(ops[c], "error")]
  /\ UNCHANGED <<portfolios, transactions, nextTxId, opsLeft, known, counts>>

InitStore == Created(StoreIds) /\ opsLeft = MaxStoreOps

\* One caller, whose operations run one after the other.
NextStore ==
  \/ Step("c1")
  \/ deletePortfolio("c1")
  \/ updatePortfolio("c1")
  \/ updatePortfolioStats("c1")
  \/ storeRejects("c1")

SpecStore == InitStore /\ [][NextStore]_vars

----------------------------------------------------------------------------
(* The valuation of the specification, section 4.2, over the stored ledger *)
(* as a set (no scan order).                                               *)

LedgerOf(portfolioId) ==
  {id \in DOMAIN transactions : transactions[id].portfolioId = portfolioId}

RECURSIVE SumAmount(_)
SumAmount(ids) ==
  IF ids = {} THEN 0
  ELSE LET id == CHOOSE x \in ids : TRUE
       IN  transactions[id].amount + SumAmount(ids \ {id})

RECURSIVE SumUnits(_, _)
SumUnits(ids, details) ==
  IF ids = {} THEN 0
  ELSE LET id == CHOOSE x \in ids : TRUE
       IN  transactions[id][details].unitsPurchased + SumUnits(ids \ {id}, details)

Deposits(portfolioId) ==
  {id \in LedgerOf(portfolioId) : transactions[id].type = "deposit"}

Withdrawals(portfolioId) ==
  {id \in LedgerOf(portfolioId) : transactions[id].type = "withdrawal"}

NetInvested(portfolioId) ==
  SumAmount(Deposits(portfolioId)) - SumAmount(Withdrawals(portfolioId))

Carrying(ids, details) == {id \in ids : Has(transactions[id], details)}

UnitBalance(portfolioId, details) ==
  SumUnits(Carrying(Deposits(portfolioId), details), details)
    - SumUnits(Carrying(Withdrawals(portfolioId), details), details)

StoredNav(portfolioId) == OrZero(portfolios[portfolioId], "currentNavPerUnit")

StoredPrice(portfolioId) == OrZero(portfolios[portfolioId], "currentStockPriceUSD")

StoredRate(portfolioId) == OrZero(portfolios[portfolioId], "currentExchangeRate")

TypeOf(portfolioId) == portfolios[portfolioId].investmentType

Valuation(portfolioId) ==
  LET type  == TypeOf(portfolioId)
      net   == NetInvested(portfolioId)
      units == IF type = "mutual_fund" THEN UnitBalance(portfolioId, "mutualFundDetails")
               ELSE IF type = "stock" THEN UnitBalance(portfolioId, "stockDetails")
               ELSE 0
      value == IF type = "mutual_fund" /\ StoredNav(portfolioId) > 0
               THEN units * StoredNav(portfolioId)
               ELSE IF type = "stock" /\ StoredPrice(portfolioId) > 0
                                      /\ StoredRate(portfolioId) > 0
               THEN units * StoredPrice(portfolioId) * StoredRate(portfolioId)
               ELSE net
  IN  [ currentValue     |-> value,
        totalInvested    |-> net,
        totalReturn      |-> value - net,
        returnPercentage |-> IF net > 0 THEN Ratio((value - net) * 100, net) ELSE Zero,
        transactionCount |-> Cardinality(LedgerOf(portfolioId)),
        totalUnits       |-> units ]

\* The stored snapshot: the six valuation fields of the portfolio document.
Snapshot(portfolioId) ==
  [f \in SnapshotFields \cap DOMAIN portfolios[portfolioId] |-> portfolios[portfolioId][f]]

Consistent(portfolioId) == Snapshot(portfolioId) = Valuation(portfolioId)

LedgerOps == {"createTransaction", "updateTransaction", "deleteTransaction"}

Done(c) == ops[c].pc = "done"

InFlight == {c \in Callers : ~Settled(c)}

----------------------------------------------------------------------------
(* Claims *)

\* C1: each of createTransaction, updateTransaction and deleteTransaction
\* that has returned successfully made its ledger write first, then ran
\* updatePortfolioStats exactly once (ledger read, portfolio read, the unit
\* read of the unit-denominated types, one snapshot write); nothing is
\* deferred or coalesced: the snapshot writes issued so far are as many as
\* the store writes of the operations that are no longer in flight.
C1_OneRecomputePerMutation ==
  /\ \A c \in Callers :
       Done(c) /\ ops[c].kind \in LedgerOps =>
         /\ Len(ops[c].trace) \in {4, 5}
         /\ ops[c].trace[1] = CASE ops[c].kind = "createTransaction" -> "setDoc"
                                [] ops[c].kind = "updateTransaction" -> "updateDoc"
                                [] ops[c].kind = "deleteTransaction" -> "deleteDoc"
         /\ ops[c].trace[2] = "getPortfolioStats"
         /\ ops[c].trace[3] = "getPortfolio"
         /\ Len(ops[c].trace) = 5 => ops[c].trace[4] = "getUnits"
         /\ ops[c].trace[Len(ops[c].trace)] = "updatePortfolioStats"
         /\ Cardinality({i \in DOMAIN ops[c].trace :
                           ops[c].trace[i] = "updatePortfolioStats"}) = 1
  /\ counts.snapshotWrites = counts.succeeded
  /\ counts.ledgerWrites + counts.quoteWrites
       = counts.snapshotWrites + Cardinality(InFlight)

\* Two ledger mutations have returned and two snapshot writes were made.
C1_Witness ==
  /\ counts.ledgerWrites = 2 /\ counts.quoteWrites = 0
  /\ counts.snapshotWrites = 2
  /\ \A c \in Callers : Settled(c)
  /\ \E c \in Callers : Done(c) /\ ops[c].kind = "deleteTransaction"

\* C2: single writer, each operation given the id of the portfolio it acts
\* on: whenever the writer's operation has completed successfully (and
\* before its first one), the stored snapshot equals the specification's
\* valuation of the stored ledger, the stored quote and the investment type.
C2_SnapshotIsValuation ==
  (\A c \in Callers : ops[c].pc \in {"idle", "done"}) =>
    \A p \in DOMAIN portfolios : Consistent(p)

\* A priced mutual fund with a non-empty ledger, after a completed operation.
C2_Witness ==
  /\ Done("c1")
  /\ TypeOf("p1") = "mutual_fund"
  /\ StoredNav("p1") = 12
  /\ Cardinality(LedgerOf("p1")) = 2
  /\ portfolios["p1"].totalReturn # 0
  /\ Consistent("p1")

\* C3 (as claimed): with operations of several callers in flight at once,
\* once all of them have completed the stored snapshot equals the valuation
\* of the final ledger and the final quote.
C3_ConsistentAfterConcurrentOps ==
  (\A c \in Callers : Settled(c)) => \A p \in DOMAIN portfolios : Consistent(p)

\* C4: in every reachable state the five snapshot fields are present and
\* totalReturn = currentValue - totalInvested.
C4_SnapshotComplete ==
  \A p \in DOMAIN portfolios :
    /\ {"currentValue", "totalInvested", "totalReturn", "returnPercentage",
        "transactionCount"} \subseteq DOMAIN portfolios[p]
    /\ portfolios[p].totalReturn = portfolios[p].currentValue - portfolios[p].totalInvested

\* A written snapshot with a non-zero return.
C4_Witness ==
  /\ counts.snapshotWrites > 0
  /\ portfolios["p1"].totalReturn # 0
  /\ portfolios["p1"].totalInvested # 0

\* C5: zero-return guard: in every reachable state the stored
\* returnPercentage is a finite number, and it is 0 whenever the stored
\* totalInvested is <= 0.
C5_ZeroReturnGuard ==
  \A p \in DOMAIN portfolios :
    /\ Finite(portfolios[p].returnPercentage)
    /\ portfolios[p].totalInvested <= 0 => portfolios[p].returnPercentage = Zero

\* Withdrawals exceed deposits on a priced portfolio: the return is not zero,
\* the percentage is.
C5_Witness ==
  /\ counts.snapshotWrites > 0
  /\ portfolios["p1"].totalInvested < 0
  /\ portfolios["p1"].totalReturn # 0
  /\ portfolios["p1"].returnPercentage = Zero

----------------------------------------------------------------------------
(* Scan orders and the worked examples of section 8 *)

Without(txs, i) == SubSeq(txs, 1, i - 1) \o SubSeq(txs, i + 1, Len(txs))

\* Every order in which the list txs can be scanned.
RECURSIVE Orders(_)
Orders(txs) ==
  IF txs = <<>> THEN {<<>>}
  ELSE UNION { {<<txs[i]>> \o rest : rest \in Orders(Without(txs, i))} :
               i \in 1..Len(txs) }

Fetched(portfolioId) == getPortfolioTransactions(transactions, portfolioId)

\* The stored transactions, as a bag of their documents, are exactly docs.
LedgerIs(portfolioId, docs) ==
  /\ Cardinality(LedgerOf(portfolioId)) = Len(docs)
  /\ \E f \in [1..Len(docs) -> LedgerOf(portfolioId)] :
       /\ \A i, j \in 1..Len(docs) : f[i] = f[j] => i = j
       /\ \A i \in 1..Len(docs) : transactions[f[i]] = docs[i]

Deposit5000 == [portfolioId |-> "p1", type |-> "deposit", amount |-> 5000, date |-> 1]

Withdrawal2000 == [portfolioId |-> "p1", type |-> "withdrawal", amount |-> 2000, date |-> 2]

FundDeposit100 ==
  [portfolioId |-> "p1", type |-> "deposit", amount |-> 1000, date |-> 1,
   mutualFundDetails |-> [unitsPurchased |-> 100, pricePerUnit |-> 10]]

FundWithdrawal150 ==
  [portfolioId |-> "p1", type |-> "withdrawal", amount |-> 1500, date |-> 3,
   mutualFundDetails |-> [unitsPurchased |-> 150, pricePerUnit |-> 10]]

StockDeposit10 ==
  [portfolioId |-> "p1", type |-> "deposit", amount |-> 2000, date |-> 2,
   stockDetails |-> [unitsPurchased |-> 10, pricePerUnitUSD |-> 50, exchangeRate |-> 4]]

----------------------------------------------------------------------------
(* Claims, continued *)

\* C6: for every investment type and every ledger the writer has built
\* (taken between its operations), getPortfolioStats
\* gives netInvested = (sum of the deposits' amounts) - (sum of the
\* withdrawals' amounts) in whatever order the ledger is scanned, and that is
\* the totalInvested a completed recompute has written; a deposit of 5000
\* followed by a withdrawal of 2000 gives 3000.
C6_NetInvestedAnyOrder ==
  \A p \in DOMAIN portfolios :
    /\ Settled("c1") =>
         \A txs \in Orders(Fetched(p)) : getPortfolioStats(txs).netInvested = NetInvested(p)
    /\ Done("c1") => portfolios[p].totalInvested = NetInvested(p)
    /\ Done("c1") /\ LedgerIs(p, <<Deposit5000, Withdrawal2000>>)
         => portfolios[p].totalInvested = 3000

\* Scenario D, recomputed.
C6_Witness ==
  /\ Done("c1") /\ ops["c1"].kind = "createTransaction"
  /\ LedgerIs("p1", <<Deposit5000, Withdrawal2000>>)
  /\ Fetched("p1")[1].type = "withdrawal"
  /\ portfolios["p1"].totalInvested = 3000

\* C7: mutual fund: a completed recompute has written currentValue =
\* totalUnits * currentNavPerUnit when the stored NAV is present and > 0, and
\* currentValue = netInvested otherwise; one deposit of 100 units at 10 is
\* valued 1000 with no NAV and 1200 (return 200, 20 %) with NAV 12.
C7_MutualFundValue ==
  \A p \in DOMAIN portfolios :
    Done("c1") /\ TypeOf(p) = "mutual_fund" =>
      /\ portfolios[p].currentValue =
           IF Has(portfolios[p], "currentNavPerUnit") /\ portfolios[p].currentNavPerUnit > 0
           THEN UnitBalance(p, "mutualFundDetails") * portfolios[p].currentNavPerUnit
           ELSE NetInvested(p)
      /\ LedgerIs(p, <<FundDeposit100>>) /\ StoredNav(p) = 0 =>
           /\ portfolios[p].currentValue = 1000
           /\ portfolios[p].totalReturn = 0
           /\ portfolios[p].returnPercentage = Zero
      /\ LedgerIs(p, <<FundDeposit100>>) /\ StoredNav(p) = 12 =>
           /\ portfolios[p].currentValue = 1200
           /\ portfolios[p].totalReturn = 200
           /\ portfolios[p].returnPercentage = Whole(20)

\* Scenario B: the NAV has just been updated to 12 and recomputed.
C7_Witness ==
  /\ Done("c1") /\ ops["c1"].kind = "handleNavUpdate"
  /\ TypeOf("p1") = "mutual_fund"
  /\ LedgerIs("p1", <<FundDeposit100>>)
  /\ StoredNav("p1") = 12
  /\ portfolios["p1"].currentValue = 1200
  /\ portfolios["p1"].returnPercentage = Whole(20)

\* C8: stock: a completed recompute has written currentValue = totalUnits *
\* currentStockPriceUSD * currentExchangeRate only when both stored quote
\* fields are > 0, and currentValue = netInvested when either is absent or 0.
C8_StockValue ==
  \A p \in DOMAIN portfolios :
    Done("c1") /\ TypeOf(p) = "stock" =>
      portfolios[p].currentValue =
        IF /\ Has(portfolios[p], "currentStockPriceUSD")
           /\ Has(portfolios[p], "currentExchangeRate")
           /\ portfolios[p].currentStockPriceUSD > 0
           /\ portfolios[p].currentExchangeRate > 0
        THEN UnitBalance(p, "stockDetails") * portfolios[p].currentStockPriceUSD
               * portfolios[p].currentExchangeRate
        ELSE NetInvested(p)

\* A price without an exchange rate: 10 units are valued at cost.
C8_Witness ==
  /\ Done("c1") /\ ops["c1"].kind = "handleStockPriceUpdate"
  /\ TypeOf("p1") = "stock"
  /\ LedgerIs("p1", <<StockDeposit10>>)
  /\ StoredPrice("p1") = 55 /\ StoredRate("p1") = 0
  /\ portfolios["p1"].totalUnits = 10
  /\ portfolios["p1"].currentValue = 2000

\* C9: cooperative, pvd and savings portfolios: in every reachable state
\* currentValue = totalInvested, totalReturn = 0, returnPercentage = 0 and
\* totalUnits = 0, whatever quote updateNav / updateStockPrice have stored
\* and whatever payloads the ledger carries.
C9_UnquotedTypesAtCost ==
  \A p \in DOMAIN portfolios :
    TypeOf(p) \in {"cooperative", "pvd", "savings"} =>
      /\ portfolios[p].currentValue = portfolios[p].totalInvested
      /\ portfolios[p].totalReturn = 0
      /\ portfolios[p].returnPercentage = Zero
      /\ portfolios[p].totalUnits = 0

\* A savings portfolio holding a NAV quote and a transaction with fund units.
C9_Witness ==
  /\ TypeOf("p1") = "savings"
  /\ StoredNav("p1") = 12
  /\ LedgerIs("p1", <<FundDeposit100>>)
  /\ \A c \in Callers : Settled(c)
  /\ portfolios["p1"].totalInvested = 1000
  /\ portfolios["p1"].currentValue = 1000

\* C10: unit accumulation sign law: for every ledger the writer has built
\* (taken between its operations) and every scan order, getMutualFundUnits (getStockUnits) gives the units of the
\* deposits carrying mutualFundDetails (stockDetails) minus the units of the
\* withdrawals carrying them, transactions without the payload counting 0;
\* that balance is the totalUnits a completed recompute has written on a
\* mutual-fund (stock) portfolio.
C10_UnitSignLaw ==
  \A p \in DOMAIN portfolios :
    /\ Settled("c1") =>
         \A txs \in Orders(Fetched(p)) :
           /\ getMutualFundUnits(txs) = UnitBalance(p, "mutualFundDetails")
           /\ getStockUnits(txs) = UnitBalance(p, "stockDetails")
    /\ Done("c1") /\ TypeOf(p) = "mutual_fund" =>
         portfolios[p].totalUnits = UnitBalance(p, "mutualFundDetails")
    /\ Done("c1") /\ TypeOf(p) = "stock" =>
         portfolios[p].totalUnits = UnitBalance(p, "stockDetails")

\* A fund deposit, a larger fund withdrawal and a transaction without units:
\* the balance is negative.
C10_Witness ==
  /\ Done("c1")
  /\ TypeOf("p1") = "mutual_fund"
  /\ LedgerIs("p1", <<FundDeposit100, FundWithdrawal150, Deposit5000>>)
  /\ portfolios["p1"].totalUnits = -50

----------------------------------------------------------------------------
(* Claims on the quote handlers, failures and identifiers *)

QuoteOps == {"handleNavUpdate", "handleStockPriceUpdate"}

QuoteWrites == {"updateNav", "updateStockPrice"}

Last(s) == s[Len(s)]

RecomputeSteps == {"stats", "portfolio", "units", "write"}

\* C12: the recompute is all-or-nothing on the snapshot.  A step in which a
\* recompute fails (a read or the snapshot write rejects, or the portfolio is
\* not found) changes no snapshot field of any portfolio; and a step that
\* changes a stored snapshot is the snapshot write of one updatePortfolioStats
\* on that portfolio, which stores all six recomputed fields at once.
C12_RecomputeAllOrNothing ==
  [][ /\ \A c \in Callers :
           ops[c].pc \in RecomputeSteps /\ ops'[c].pc = "failed" =>
             /\ DOMAIN portfolios' = DOMAIN portfolios
             /\ \A p \in DOMAIN portfolios : Snapshot(p)' = Snapshot(p)
      /\ \A p \in DOMAIN portfolios \cap DOMAIN portfolios' :
           Snapshot(p)' # Snapshot(p) =>
             \E c \in Callers :
               /\ ops[c].pc = "write" /\ ops'[c].pc = "done"
               /\ ops[c].portfolioId = p
               /\ Snapshot(p)' = snapshotOf(ops[c].stats, ops[c].portfolio,
                                            ops[c].totalUnits)
    ]_vars

\* createTransaction stored its transaction, its recompute read the ledger
\* and the portfolio and then failed at the snapshot write: the snapshot is
\* the one of the empty ledger still.
C12_Witness ==
  /\ DOMAIN portfolios = {"p1", "p2"}
  /\ ops["c1"].pc = "failed" /\ ops["c1"].kind = "createTransaction"
  /\ ops["c1"].trace = <<"setDoc", "getPortfolioStats", "getPortfolio", "error">>
  /\ Cardinality(LedgerOf("p1")) = 1
  /\ Snapshot("p1") = Snapshot("p2")
  /\ portfolios["p1"].transactionCount = 0

\* C13: a recompute triggered by createTransaction, updateTransaction,
\* deleteTransaction, handleNavUpdate or handleStockPriceUpdate ends in one
\* of two ways: the snapshot write is made and the operation resolves, or a
\* step fails and the operation is rejected with that error.  No operation
\* resolves while its recompute did not write the snapshot.
C13_RecomputeFailurePropagates ==
  [][ \A c \in Callers :
        ops[c].pc \in RecomputeSteps /\ ops[c].kind \in LedgerOps \cup QuoteOps =>
          \/ ops'[c].pc \in RecomputeSteps /\ ops'[c].kind = ops[c].kind
          \/ /\ ops'[c].pc = "done" /\ ops'[c].kind = ops[c].kind
             /\ ops[c].pc = "write"
             /\ counts'.snapshotWrites = counts.snapshotWrites + 1
             /\ Snapshot(ops[c].portfolioId)' =
                  snapshotOf(ops[c].stats, ops[c].portfolio, ops[c].totalUnits)
          \/ /\ ops'[c].pc = "failed" /\ ops'[c].kind = ops[c].kind
             /\ Last(ops'[c].trace) \in {"error", "throw"}
             /\ counts'.snapshotWrites = counts.snapshotWrites
    ]_vars

\* handleNavUpdate stored a NAV of 12 on a fund holding 100 units, its
\* recompute failed at the portfolio read: the handler is rejected and the
\* snapshot still shows the value at cost.
C13_Witness ==
  /\ "p1" \in DOMAIN portfolios
  /\ ops["c1"].pc = "failed" /\ ops["c1"].kind = "handleNavUpdate"
  /\ ops["c1"].trace = <<"updateNav", "getPortfolioStats", "error">>
  /\ TypeOf("p1") = "mutual_fund" /\ StoredNav("p1") = 12
  /\ portfolios["p1"].totalUnits = 100
  /\ portfolios["p1"].currentValue = 1000

\* The step in which caller c invokes an operation of the given kind.
Starts(c, kind) ==
  /\ Settled(c) /\ opsLeft' = opsLeft - 1
  /\ ops'[c].kind = kind
  /\ \A d \in Callers \ {c} : ops'[d] = ops[d]

\* An operation on a portfolio id that is not in the store is rejected and
\* writes no snapshot.
MissingPortfolioSurfaced(c) ==
  /\ ops[c].pc \in RecomputeSteps /\ ops[c].portfolioId \notin DOMAIN portfolios =>
       /\ counts'.snapshotWrites = counts.snapshotWrites
       /\ ops'[c].pc # "done"
  /\ ops[c].pc = "portfolio" /\ ops[c].portfolioId \notin DOMAIN portfolios
       /\ ops'[c] # ops[c] => ops'[c].pc = "failed"

\* An updateTransaction that goes on to its recompute has updated a stored
\* transaction.
MissingUpdateSurfaced(c) ==
  Starts(c, "updateTransaction") /\ ops'[c].pc # "failed" =>
    \E id \in DOMAIN transactions, input \in UpdateInputs :
      transactions' = [transactions EXCEPT ![id] = Merge(@, input)]

\* A deleteTransaction that goes on to its recompute has deleted a stored
\* transaction.
MissingDeleteSurfaced(c) ==
  Starts(c, "deleteTransaction") /\ ops'[c].pc # "failed" =>
    DOMAIN transactions' # DOMAIN transactions

\* C14 (as claimed): an operation that names a portfolio id or a transaction
\* id that is not in the store (createTransaction / updatePortfolioStats on
\* a missing portfolio, updateTransaction / deleteTransaction on a missing
\* transaction) is rejected, and no snapshot write is made for it.
C14_NotFoundSurfaced ==
  [][ \A c \in Callers :
        /\ MissingPortfolioSurfaced(c)
        /\ MissingUpdateSurfaced(c)
        /\ MissingDeleteSurfaced(c) ]_vars

\* C15 (as claimed): every stored transaction belongs to a stored portfolio,
\* and once deletePortfolio(p) has returned the ledger holds no transaction
\* of p.
C15_CascadeDelete ==
  /\ \A id \in DOMAIN transactions : transactions[id].portfolioId \in DOMAIN portfolios
  /\ \A c \in Callers :
       Done(c) /\ ops[c].kind = "deletePortfolio" => LedgerOf(ops[c].portfolioId) = {}

\* The step in which caller c's recompute makes its snapshot write.
WritesSnapshot(c) == ops[c].pc = "write" /\ ops'[c].pc = "done"

\* C16: idempotence.  An updatePortfolioStats(p) that directly follows a
\* completed recompute of p, with no ledger or quote write in between,
\* writes the six values that are stored already: currentValue,
\* totalInvested, totalReturn, returnPercentage, transactionCount and
\* totalUnits are unchanged by its write.
C16_RecomputeIdempotent ==
  [][ \A c \in Callers :
        /\ ops[c].kind = "updatePortfolioStats" /\ ops[c].trace[1] = "again"
        /\ WritesSnapshot(c)
        => /\ snapshotOf(ops[c].stats, ops[c].portfolio, ops[c].totalUnits)
                = Snapshot(ops[c].portfolioId)
           /\ Snapshot(ops[c].portfolioId)' = Snapshot(ops[c].portfolioId)
    ]_vars

\* A second recompute has completed on a fund holding 100 units.
C16_Witness ==
  /\ "p1" \in DOMAIN portfolios
  /\ Done("c1") /\ ops["c1"].kind = "updatePortfolioStats"
  /\ ops["c1"].portfolioId = "p1"
  /\ ops["c1"].trace[1] = "again"
  /\ portfolios["p1"].transactionCount = 1
  /\ portfolios["p1"].totalUnits = 100
  /\ portfolios["p1"].totalInvested = 1000

EmptySnapshot ==
  [ currentValue |-> 0, totalInvested |-> 0, totalReturn |-> 0,
    returnPercentage |-> Zero, transactionCount |-> 0, totalUnits |-> 0 ]

\* C17: empty ledger.  A recompute that writes the snapshot of a portfolio
\* with no stored transaction, of any investment type and whatever the quote
\* stored, writes totalInvested = 0, currentValue = 0, totalReturn = 0,
\* returnPercentage = 0, totalUnits = 0 and transactionCount = 0.
C17_EmptyLedgerSnapshot ==
  [][ \A c \in Callers :
        WritesSnapshot(c) /\ LedgerOf(ops[c].portfolioId) = {} =>
          /\ snapshotOf(ops[c].stats, ops[c].portfolio, ops[c].totalUnits) = EmptySnapshot
          /\ Snapshot(ops[c].portfolioId)' = EmptySnapshot
    ]_vars

\* The last transaction of a fund priced at 12 has been deleted and the
\* recompute has written the snapshot.
C17_Witness ==
  /\ "p1" \in DOMAIN portfolios
  /\ Done("c1") /\ ops["c1"].kind = "deleteTransaction"
  /\ ops["c1"].portfolioId = "p1"
  /\ TypeOf("p1") = "mutual_fund" /\ StoredNav("p1") = 12
  /\ nextTxId = 2 /\ LedgerOf("p1") = {}
  /\ Snapshot("p1") = EmptySnapshot

\* Every operation issued to the unreliable store so far wrote the ledger or
\* a quote and completed its recompute.
AllRecomputed ==
  /\ counts.snapshotWrites = MaxStoreOps - opsLeft
  /\ counts.ledgerWrites + counts.quoteWrites = counts.snapshotWrites

\* C18 (as claimed): after a successful updateTransaction or
\* deleteTransaction the snapshot of the portfolio the transaction is stored
\* under has been recomputed, whatever portfolioId the caller passed: when
\* every operation so far has completed its recompute, the snapshot of every
\* portfolio is the valuation of its ledger.
C18_OwnerRecomputed ==
  \A c \in Callers :
    /\ Done(c) /\ ops[c].kind \in {"updateTransaction", "deleteTransaction"}
    /\ AllRecomputed
    => \A p \in DOMAIN portfolios : Consistent(p)

\* A recompute that has made its first ledger read and not yet its write.
MidRecompute(c) == ops[c].pc \in {"portfolio", "units", "write"}

\* C19 (as claimed): no two recomputes of the same portfolio are in flight
\* at once: while one updatePortfolioStats(p) is between its first ledger
\* read and its snapshot write, no other updatePortfolioStats(p) has read.
C19_NoOverlappingRecomputes ==
  \A c, d \in Callers :
    c # d /\ ops[c].portfolioId = ops[d].portfolioId =>
      ~(MidRecompute(c) /\ MidRecompute(d))

PriorSnapshots ==
  { EmptySnapshot,
    [ currentValue |-> 9000, totalInvested |-> 6000, totalReturn |-> 3000,
      returnPercentage |-> Whole(50), transactionCount |-> 7, totalUnits |-> 70 ] }

\* C20: every recompute is a full recompute.  The six values a recompute
\* writes are the valuation of the ledger, the quote fields and the type as
\* stored, and they are the same whatever snapshot was stored before: with
\* any other prior snapshot in the document, the portfolio read and the
\* write give the same six values.
C20_FullRecompute ==
  [][ \A c \in Callers :
        WritesSnapshot(c) =>
          LET p == ops[c].portfolioId
          IN  /\ Snapshot(p)' = Valuation(p)'
              /\ \A prior \in PriorSnapshots :
                   LET doc     == Merge(portfolios[p], prior)
                       written == writeSnapshot(doc, snapshotOf(ops[c].stats, getPortfolio(doc),
                                                                ops[c].totalUnits))
                   IN  [f \in SnapshotFields |-> written[f]] = Snapshot(p)'
    ]_vars

\* createTransaction stored a fund deposit and its recompute failed; the
\* updatePortfolioStats that followed found the snapshot of the empty ledger
\* and wrote the valuation of the one-entry ledger.
C20_Witness ==
  /\ "p1" \in DOMAIN portfolios
  /\ Done("c1") /\ ops["c1"].kind = "updatePortfolioStats"
  /\ ops["c1"].portfolioId = "p1" /\ ops["c1"].trace[1] = "call"
  /\ counts.ledgerWrites = 1 /\ counts.snapshotWrites = 1
  /\ Cardinality(LedgerOf("p1")) = 1
  /\ portfolios["p1"].totalUnits = 100
  /\ Consistent("p1")

----------------------------------------------------------------------------
(* Claims on the frame of the writes, validation and recovery *)

\* C21: every snapshot write replaces the snapshot wholesale.  The object a
\* recompute hands to the store has exactly the six fields currentValue,
\* totalInvested, totalReturn, returnPercentage, transactionCount and
\* totalUnits, and after the write each of the six stored fields is the value
\* just computed: none keeps the value of an earlier recompute.  The other
\* fields of the document are left as they were.
C21_WholesaleWriteBack ==
  [][ \A c \in Callers :
        WritesSnapshot(c) =>
          LET p     == ops[c].portfolioId
              stats == snapshotOf(ops[c].stats, ops[c].portfolio, ops[c].totalUnits)
          IN  /\ DOMAIN stats = SnapshotFields
              /\ \A f \in SnapshotFields : portfolios'[p][f] = stats[f]
              /\ DOMAIN portfolios'[p] = DOMAIN portfolios[p] \cup SnapshotFields
              /\ \A f \in DOMAIN portfolios[p] \ SnapshotFields :
                   portfolios'[p][f] = portfolios[p][f]
    ]_vars

\* A second snapshot write has replaced all six values of the first one: a
\* fund of 100 units bought for 1000, repriced at 12.
C21_Witness ==
  /\ counts.snapshotWrites = 2
  /\ Snapshot("p1") =
       [ currentValue |-> 1200, totalInvested |-> 1000, totalReturn |-> 200,
         returnPercentage |-> Whole(20), transactionCount |-> 1, totalUnits |-> 100 ]

\* The quote stored on a portfolio document, absent fields read as 0.
Quote(portfolioId) ==
  [ currentNavPerUnit    |-> StoredNav(portfolioId),
    currentStockPriceUSD |-> StoredPrice(portfolioId),
    currentExchangeRate  |-> StoredRate(portfolioId) ]

NoQuote ==
  [ currentNavPerUnit |-> 0, currentStockPriceUSD |-> 0, currentExchangeRate |-> 0 ]

\* Caller c starts a quote handler on portfolio p with its quote write.
QuoteWritten(c, p) ==
  /\ \E kind \in QuoteOps : Starts(c, kind)
  /\ ops'[c].portfolioId = p
  /\ ops'[c].trace[1] \in QuoteWrites

\* C22: the quote fields of a portfolio change only in the step in which a
\* quote handler makes its updateNav / updateStockPrice write on that
\* portfolio: createTransaction, updateTransaction, deleteTransaction,
\* updatePortfolio and the snapshot write leave them as they are.  Until the
\* first quote write every portfolio has no quote (0), and the getPortfolio
\* read of every recompute returns the quote stored then, that is the one
\* most recently written.
C22_QuoteFrame ==
  [][ /\ \A p \in DOMAIN portfolios \cap DOMAIN portfolios' :
           Quote(p)' # Quote(p) => \E c \in Callers : QuoteWritten(c, p)
      /\ \A c \in Callers :
           \/ \E kind \in LedgerOps \cup {"updatePortfolio", "updatePortfolioStats"} :
                Starts(c, kind)
           \/ WritesSnapshot(c)
           => \A p \in DOMAIN portfolios \cap DOMAIN portfolios' : Quote(p)' = Quote(p)
      /\ counts'.quoteWrites = 0 => \A p \in DOMAIN portfolios' : Quote(p)' = NoQuote
      /\ \A c \in Callers :
           ops[c].pc = "portfolio" /\ ops'[c].pc \in {"units", "write"} =>
             [f \in DOMAIN NoQuote |-> ops'[c].portfolio[f]] = Quote(ops[c].portfolioId)
    ]_vars

\* A NAV of 12 written first has survived a later createTransaction and its
\* snapshot write, and that recompute has valued the 100 units with it.
C22_Witness ==
  /\ "p1" \in DOMAIN portfolios
  /\ Done("c1") /\ ops["c1"].kind = "createTransaction"
  /\ ops["c1"].portfolioId = "p1"
  /\ counts.quoteWrites = 1
  /\ Quote("p1") = [NoQuote EXCEPT !.currentNavPerUnit = 12]
  /\ Snapshot("p1").totalUnits = 100
  /\ Snapshot("p1").currentValue = 1200

\* C23: nothing is validated or clamped.  createTransaction stores whatever
\* it is given and goes on to the recompute, also a withdrawal larger than
\* the deposits or the units held; the snapshot then carries the signed
\* sums, negative included; and with a positive quote and a unit balance of
\* zero or less the current value is still units x price.
C23_NoClamping ==
  [][ \A c \in Callers :
        /\ Starts(c, "createTransaction") =>
             /\ DOMAIN transactions' = DOMAIN transactions \cup {nextTxId}
             /\ ops'[c].pc = "stats"
        /\ WritesSnapshot(c) =>
             LET p     == ops[c].portfolioId
                 type  == TypeOf(p)
                 units == IF type = "mutual_fund" THEN UnitBalance(p, "mutualFundDetails")
                          ELSE UnitBalance(p, "stockDetails")
             IN  /\ portfolios'[p].totalInvested = NetInvested(p)
                 /\ type \in {"mutual_fund", "stock"} => portfolios'[p].totalUnits = units
                 /\ type = "mutual_fund" /\ StoredNav(p) > 0 /\ units <= 0
                      => portfolios'[p].currentValue = units * StoredNav(p)
                 /\ type = "stock" /\ StoredPrice(p) > 0 /\ StoredRate(p) > 0 /\ units <= 0
                      => portfolios'[p].currentValue = units * StoredPrice(p) * StoredRate(p)
    ]_vars

\* A fund priced at 12 from which 150 units were withdrawn for 1500 with
\* nothing deposited: -150 units, -1500 invested, valued at -1800.
C23_Witness ==
  /\ Done("c1") /\ ops["c1"].kind = "createTransaction"
  /\ LedgerIs("p1", <<FundWithdrawal150>>)
  /\ StoredNav("p1") = 12
  /\ Snapshot("p1").totalUnits = -150
  /\ Snapshot("p1").totalInvested = -1500
  /\ Snapshot("p1").currentValue = -1800

\* C24 (as claimed): every stored transaction carries only the detail payload
\* of its parent portfolio's investment type: mutualFundDetails only under a
\* mutual_fund portfolio, stockDetails only under a stock portfolio.
C24_PayloadMatchesType ==
  \A id \in DOMAIN transactions :
    LET p == transactions[id].portfolioId
    IN  p \in DOMAIN portfolios =>
          /\ Has(transactions[id], "mutualFundDetails") => TypeOf(p) = "mutual_fund"
          /\ Has(transactions[id], "stockDetails") => TypeOf(p) = "stock"

\* The step in which updateTransaction has merged input into record id.
MergedInto(id, input) ==
  /\ DOMAIN transactions' = DOMAIN transactions
  /\ \A j \in DOMAIN transactions \ {id} : transactions'[j] = transactions[j]
  /\ DOMAIN transactions'[id] = DOMAIN transactions[id] \cup DOMAIN input
  /\ \A f \in DOMAIN input : transactions'[id][f] = input[f]
  /\ \A f \in DOMAIN transactions[id] \ DOMAIN input :
       transactions'[id][f] = transactions[id][f]

\* C25: updateTransaction merges a partial update.  In the step of its
\* updateDoc exactly one stored record changes, and of that record only the
\* fields of the input: portfolioId and every omitted field keep their
\* values.  Turning a deposit into a withdrawal keeps its amount and lowers
\* the net invested sum of its portfolio by twice that amount, and the
\* recompute that follows writes the valuation of the merged ledger.
C25_PartialUpdateMerges ==
  [][ \A c \in Callers :
        /\ Starts(c, "updateTransaction") /\ ops'[c].pc = "stats" =>
             /\ \E id \in DOMAIN transactions, input \in UpdateInputs :
                  /\ MergedInto(id, input)
                  /\ "portfolioId" \notin DOMAIN input
             /\ \A id \in DOMAIN transactions :
                  transactions[id].type = "deposit" /\ transactions'[id].type = "withdrawal"
                    => /\ transactions'[id].amount = transactions[id].amount
                       /\ NetInvested(transactions[id].portfolioId)' =
                            NetInvested(transactions[id].portfolioId)
                              - 2 * transactions[id].amount
        /\ WritesSnapshot(c) /\ ops[c].kind = "updateTransaction"
             => Consistent(ops[c].portfolioId)'
    ]_vars

\* A deposit of 5000 turned into a withdrawal: the record keeps amount and
\* date, and the total invested has gone from 5000 to -5000.
C25_Witness ==
  /\ Done("c1") /\ ops["c1"].kind = "updateTransaction"
  /\ LedgerIs("p1", <<[Deposit5000 EXCEPT !.type = "withdrawal"]>>)
  /\ counts.ledgerWrites = 2 /\ counts.snapshotWrites = 2
  /\ Snapshot("p1").totalInvested = -5000
  /\ Snapshot("p1").transactionCount = 1

\* Caller c's recompute fails in this step.
RecomputeFails(c) == ops[c].pc \in RecomputeSteps /\ ops'[c].pc = "failed"

\* C26: the first write and the recompute are not atomic.  When the
\* recompute of createTransaction, updateTransaction, deleteTransaction,
\* handleNavUpdate or handleStockPriceUpdate fails after the first write,
\* the operation is rejected, nothing is rolled back (ledger and portfolio
\* documents stay as the first write left them; a created transaction is
\* still stored), and the snapshot of a portfolio changes again only in a
\* later snapshot write for that portfolio.
C26_NoRollback ==
  [][ /\ \A c \in Callers :
           RecomputeFails(c) /\ ops[c].kind \in LedgerOps \cup QuoteOps =>
             /\ ops[c].trace[1] \in {"setDoc", "updateDoc", "deleteDoc"} \cup QuoteWrites
             /\ transactions' = transactions
             /\ portfolios' = portfolios
             /\ ops[c].kind = "createTransaction" => nextTxId - 1 \in DOMAIN transactions'
             /\ Last(ops'[c].trace) \in {"error", "throw"}
      /\ \A p \in DOMAIN portfolios \cap DOMAIN portfolios' :
           Snapshot(p)' # Snapshot(p) =>
             \E c \in Callers : WritesSnapshot(c) /\ ops[c].portfolioId = p
    ]_vars

\* 100 fund units were bought for 1000; handleNavUpdate then stored a NAV of
\* 12 and its recompute failed: the quote is kept and the snapshot still
\* says 1000 where the valuation is 1200.
C26_Witness ==
  /\ "p1" \in DOMAIN portfolios
  /\ ops["c1"].pc = "failed" /\ ops["c1"].kind = "handleNavUpdate"
  /\ ops["c1"].portfolioId = "p1"
  /\ StoredNav("p1") = 12
  /\ LedgerIs("p1", <<FundDeposit100>>)
  /\ Snapshot("p1").currentValue = 1000
  /\ Valuation("p1").currentValue = 1200

\* Caller c's last operation ended with the snapshot write of a recompute.
Recomputed(c) == Done(c) /\ Last(ops[c].trace) = "updatePortfolioStats"

C28_OneLedgerState ==
  [][ \A c \in Callers :
        ops[c].pc = "units" /\ ops'[c].pc = "write" =>
          getPortfolioStats(Fetched(ops[c].portfolioId)) = ops[c].stats
    ]_vars

\* The document of portfolio p after one uninterrupted updatePortfolioStats
\* over the transactions in store.
RecomputeOn(store, doc, p) ==
  LET txs        == getPortfolioTransactions(store, p)
      portfolio  == getPortfolio(doc)
      totalUnits == IF portfolio.investmentType = "mutual_fund" THEN getMutualFundUnits(txs)
                    ELSE IF portfolio.investmentType = "stock" THEN getStockUnits(txs)
                    ELSE 0
  IN  writeSnapshot(doc, snapshotOf(getPortfolioStats(txs), portfolio, totalUnits))

\* Read in the state createTransaction's setDoc has produced, where the
\* document of p is still the one found: the document of p once that
\* createTransaction has completed and deleteTransaction of the id just
\* created has completed after it.
CreatedThenDeleted(p) ==
  LET created     == nextTxId - 1
      afterCreate == RecomputeOn(transactions, portfolios[p], p)
      remaining   == [id \in DOMAIN transactions \ {created} |-> transactions[id]]
  IN  RecomputeOn(remaining, afterCreate, p)

\* The writer's createTransaction has just stored its transaction.
JustCreated(c) == ops[c].kind = "createTransaction" /\ ops[c].pc = "stats"

\* The writer's run was createTransaction, then deleteTransaction of the
\* transaction created, on a portfolio never quoted.
RoundTripFromEmpty ==
  /\ Recomputed("c1") /\ ops["c1"].kind = "deleteTransaction"
  /\ nextTxId = 2 /\ transactions = <<>>
  /\ counts.ledgerWrites = 2 /\ counts.quoteWrites = 0

----------------------------------------------------------------------------
(* components/AddTransactionModal.tsx: the form and its submit handler *)

MaxFormOps == 2         \* forms submitted

\* What the number inputs can hold (an empty or unparsable field reads "").
NumberStrings == {"", "0", "-5", "10", "100"}

\* What handleAmountChange leaves in the amount field: digits, grouped.
AmountStrings == {"", "0", "750", "5,000"}

InstallmentStrings == {"", "0", "2"}

NameStrings == {"", "  ", "KFUND"}

BlankForm ==
  [ type |-> "deposit", amount |-> "", fundName |-> "", installmentNo |-> "",
    unitsPurchased |-> "", pricePerUnit |-> "", stockName |-> "",
    stockInstallmentNo |-> "", stockUnits |-> "", pricePerUnitUSD |-> "",
    exchangeRate |-> "" ]

\* formData as the user may have left it: the fields of one investment type
\* filled in, the others as the form was opened.
FormsOfType(t) ==
  { [BlankForm EXCEPT !.type = t, !.amount = a] : a \in AmountStrings }
  \cup
  { [BlankForm EXCEPT !.type = t, !.unitsPurchased = u, !.pricePerUnit = p,
                      !.fundName = n, !.installmentNo = i] :
      u \in NumberStrings, p \in NumberStrings,
      n \in NameStrings, i \in InstallmentStrings }
  \cup
  { [BlankForm EXCEPT !.type = t, !.stockUnits = u, !.pricePerUnitUSD = p,
                      !.exchangeRate = r, !.stockName = n,
                      !.stockInstallmentNo = i] :
      u \in NumberStrings, p \in NumberStrings, r \in {"", "0", "10"},
      n \in {"", "KSTOCK"}, i \in {"", "2"} }

Forms == UNION { FormsOfType(t) : t \in {"deposit", "withdrawal"} }

NaN == [nan |-> TRUE, val |-> 0]

Num(n) == [nan |-> FALSE, val |-> n]

\* parseFloat: the longest numeric prefix, NaN when there is none.
parseFloat(s) ==
  CASE s = "0"     -> Num(0)
    [] s = "-5"    -> Num(-5)
    [] s = "2"     -> Num(2)
    [] s = "10"    -> Num(10)
    [] s = "100"   -> Num(100)
    [] s = "750"   -> Num(750)
    [] s = "5000"  -> Num(5000)
    [] s = "5,000" -> Num(5)
    [] OTHER       -> NaN

\* parseInt agrees with parseFloat on these strings.
parseInt(s) == parseFloat(s)

\* s.replace(/,/g, '')
withoutCommas(s) == IF s = "5,000" THEN "5000" ELSE s

\* s.trim()
trim(s) == IF s = "  " THEN "" ELSE s

\* x * y, NaN if either is.
Times(x, y) == IF x.nan \/ y.nan THEN NaN ELSE Num(x.val * y.val)

\* Mutant: only a negative number is refused.
notPositiveLax(x) == ~x.nan /\ x.val < 0

\* !x || x <= 0 (NaN and 0 are falsy; NaN <= 0 is false)
notPositive(x) == (x.nan \/ x.val = 0) \/ (~x.nan /\ x.val <= 0)

\* !formData.installmentNo || parseInt(formData.installmentNo) <= 0
noInstallment(s) == s = "" \/ (~parseInt(s).nan /\ parseInt(s).val <= 0)

\* The message handleSubmit passes to setError, "none" when every check passes.
validationError(formData, investmentType) ==
  IF investmentType = "mutual_fund"
  THEN IF notPositive(parseFloat(formData.unitsPurchased))
       THEN "Units purchased must be greater than 0"
       ELSE IF notPositive(parseFloat(formData.pricePerUnit))
       THEN "Price per unit must be greater than 0"
       ELSE IF trim(formData.fundName) = ""
       THEN "Fund name is required"
       ELSE IF noInstallment(formData.installmentNo)
       THEN "Installment number must be greater than 0"
       ELSE "none"
  ELSE IF investmentType = "stock"
  THEN IF notPositive(parseFloat(formData.stockUnits))
       THEN "Units purchased must be greater than 0"
       ELSE IF notPositive(parseFloat(formData.pricePerUnitUSD))
       THEN "Price per unit (USD) must be greater than 0"
       ELSE IF notPositive(parseFloat(formData.exchangeRate))
       THEN "Exchange rate must be greater than 0"
       ELSE IF trim(formData.stockName) = ""
       THEN "Stock name is required"
       ELSE IF noInstallment(formData.stockInstallmentNo)
       THEN "Installment number must be greater than 0"
       ELSE "none"
  ELSE IF notPositive(parseFloat(withoutCommas(formData.amount)))
       THEN "Amount must be greater than 0"
       ELSE "none"

amountValue(formData, investmentType) ==
  IF investmentType = "mutual_fund"
  THEN Times(parseFloat(formData.unitsPurchased), parseFloat(formData.pricePerUnit))
  ELSE IF investmentType = "stock"
  THEN Times(Times(parseFloat(formData.stockUnits), parseFloat(formData.pricePerUnitUSD)),
             parseFloat(formData.exchangeRate))
  ELSE parseFloat(withoutCommas(formData.amount))

\* The CreateTransactionInput handed to onCreate (the date is a fixed one;
\* notes, the names and the installment numbers are read by no scan).
submittedInput(formData, investmentType) ==
  LET input == [type |-> formData.type,
                amount |-> amountValue(formData, investmentType).val,
                date |-> 1]
      units == parseFloat(formData.stockUnits)
      priceUSD == parseFloat(formData.pricePerUnitUSD)
      exchangeRate == parseFloat(formData.exchangeRate)
  IN  IF investmentType = "mutual_fund"
      THEN Merge(input, [mutualFundDetails |->
             [unitsPurchased |-> parseFloat(formData.unitsPurchased).val,
              pricePerUnit   |-> parseFloat(formData.pricePerUnit).val]])
      ELSE IF investmentType = "stock"
      THEN Merge(input, [stockDetails |->
             [unitsPurchased   |-> units.val,
              pricePerUnitUSD  |-> priceUSD.val,
              exchangeRate     |-> exchangeRate.val,
              purchaseValueTHB |-> Times(Times(units, priceUSD), exchangeRate).val]])
      ELSE input

\* handleSubmit up to its first await.  A failed check ends it with setError.
\* Otherwise it awaits onCreate(input), Dashboard's wrapper around
\* createTransaction, which hands the input to
\* transactionService.createTransaction: setDoc, then the recompute.
handleSubmit(c) ==
  /\ CanStart(c)
  /\ \E selectedPortfolio \in known \cap DOMAIN portfolios, formData \in Forms :
       LET investmentType == portfolios[selectedPortfolio].investmentType
       IN  IF validationError(formData, investmentType) # "none"
           THEN /\ ops' = [ops EXCEPT ![c] =
                             [IdleOp EXCEPT !.kind = "handleSubmit", !.pc = "done",
                                            !.portfolioId = selectedPortfolio,
                                            !.trace = <<"setError">>]]
                /\ UNCHANGED <<transactions, nextTxId, counts>>
           ELSE /\ transactions' =
                     [id \in DOMAIN transactions \cup {nextTxId} |->
                        IF id = nextTxId
                        THEN transactionData(submittedInput(formData, investmentType),
                                             selectedPortfolio)
                        ELSE transactions[id]]
                /\ ops' = [ops EXCEPT ![c] =
                             Recomputing("handleSubmit", selectedPortfolio, "setDoc")]
                /\ nextTxId' = nextTxId + 1
                /\ counts' = Bump("ledgerWrites")
  /\ opsLeft' = opsLeft - 1
  /\ UNCHANGED <<portfolios, known>>

InitForm == Created(PortfolioIds) /\ opsLeft = MaxFormOps

\* One user at the form; each submit runs to its end before the next.
NextForm ==
  \/ handleSubmit("c1")
  \/ readStats("c1")
  \/ readPortfolio("c1")
  \/ readUnits("c1")
  \/ writeStats("c1")

SpecForm == InitForm /\ [][NextForm]_vars

\* The transaction a submit has just stored.
Submitted == transactions'[nextTxId]

\* C30: handleSubmit reaches onCreate only with a strictly positive amount.
\* Each submit either fails a check, sets the error and changes neither the
\* ledger nor any portfolio document, or stores one transaction whose amount
\* is positive: on a mutual_fund portfolio units > 0, price > 0, amount =
\* units x price and the payload is mutualFundDetails; on a stock portfolio
\* units, priceUSD and exchangeRate > 0, amount = purchaseValueTHB = units x
\* priceUSD x exchangeRate and the payload is stockDetails; on the other
\* types the amount is the one entered and no payload is attached.
C30_SubmitValidated ==
  [][ \A c \in Callers :
        Starts(c, "handleSubmit") =>
          \/ /\ ops'[c].pc = "done" /\ ops'[c].trace = <<"setError">>
             /\ transactions' = transactions
             /\ portfolios' = portfolios
          \/ /\ ops'[c].pc = "stats" /\ ops'[c].trace = <<"setDoc">>
             /\ DOMAIN transactions' = DOMAIN transactions \cup {nextTxId}
             /\ \A id \in DOMAIN transactions : transactions'[id] = transactions[id]
             /\ portfolios' = portfolios
             /\ Submitted.portfolioId = ops'[c].portfolioId
             /\ Submitted.amount > 0
             /\ LET type == TypeOf(ops'[c].portfolioId)
                IN  /\ Has(Submitted, "mutualFundDetails") <=> type = "mutual_fund"
                    /\ Has(Submitted, "stockDetails") <=> type = "stock"
                    /\ type = "mutual_fund" =>
                         LET d == Submitted.mutualFundDetails
                         IN  /\ d.unitsPurchased > 0 /\ d.pricePerUnit > 0
                             /\ Submitted.amount = d.unitsPurchased * d.pricePerUnit
                    /\ type = "stock" =>
                         LET d == Submitted.stockDetails
                         IN  /\ d.unitsPurchased > 0 /\ d.pricePerUnitUSD > 0
                             /\ d.exchangeRate > 0
                             /\ Submitted.amount = d.purchaseValueTHB
                             /\ Submitted.amount =
                                  d.unitsPurchased * d.pricePerUnitUSD * d.exchangeRate
    ]_vars

\* A first submit failed a check and left everything as it was; the second
\* stored 10 stock units at 100 USD and a rate of 10, amount 10000, and its
\* recompute wrote the snapshot.
C30_Witness ==
  /\ Recomputed("c1") /\ ops["c1"].kind = "handleSubmit"
  /\ opsLeft = 0 /\ nextTxId = 2
  /\ TypeOf("p1") = "stock"
  /\ transactions[1].amount = 10000
  /\ transactions[1].stockDetails.purchaseValueTHB = 10000
  /\ Snapshot("p1").totalInvested = 10000
  /\ Snapshot("p1").totalUnits = 10

====
